---- MODULE Spec2Model ----
(***************************************************************************)
(* Model of the credential/session lifecycle of Huggingface-Chat:          *)
(*   utils/config.py       Config (INI-backed credential store)            *)
(*   auth/login.py         Login (one POST to the login endpoint)          *)
(*   auth/auth_manager.py  AuthenticationManager                           *)
(*                                                                         *)
(* Strings that the store keeps (emails, passwords, tokens, dates, cookie  *)
(* names) are sequences of one-character strings, so that the conversions  *)
(* of configparser (interpolation on set and on get, whitespace stripping  *)
(* on read) are computed and not assumed to be the identity.  Option and   *)
(* section names are plain TLA+ strings.  The value alphabet has no "(",   *)
(* so "%(name)s" references of BasicInterpolation are outside the model.   *)
(***************************************************************************)
EXTENDS Integers, Sequences, FiniteSets, TLC

VARIABLES config, file, last, other_config, pc

vars == <<config, file, last, other_config, pc>>

(***************************************************************************)
(* Bounds and input sets                                                   *)
(***************************************************************************)
\* longest keyword-argument list passed to a setter
MaxArgs == 2

\* Inputs.  Between them the values cover a plain string, the empty string,
\* a lone "%" (refused by interpolation on set), "%%" (read back as "%")
\* and trailing whitespace (stripped when the file is read).

EmailInputs == {<<"a">>}
PasswordInputs == {<<"b">>, <<"%">>, <<"%", "%">>}
TokenInputs == {<<>>, <<"t">>}
ExpireInputs == {<<"d", " ">>}
OtherInputs == {<<"v">>}

\* Python's None, distinct from every string over the alphabet
None == <<"None">>

\* status code of a successful login
Redirect == 302
StatusCodes == {Redirect, 401}

USER_AGENT == "Mozilla/5.0 (Windows NT 10.0; Win64; x64) AppleWebKit/537.36 (KHTML, like Gecko)"

\* the cookie name "token" as a Python str
TokenName == <<"t", "o", "k", "e", "n">>
SessionName == <<"s", "i", "d">>

\* cookie jars a login response can leave on the client: name/value pairs
\* in insertion order
CookieJars ==
    { <<>>,
      << <<SessionName, <<"x">>>>, <<TokenName, <<"t">>>> >> }

LoginKeys == {"email", "password"}
TokenKeys == {"token", "expire_date"}
SectionNames == {"LOGIN", "TOKEN", "TOKENS"}

(***************************************************************************)
(* configparser: values                                                    *)
(***************************************************************************)
RECURSIVE RemovePairs(_)
\* value.replace('%%', '')
RemovePairs(s) ==
    IF Len(s) < 2 THEN s
    ELSE IF s[1] = "%" /\ s[2] = "%" THEN RemovePairs(SubSeq(s, 3, Len(s)))
    ELSE <<s[1]>> \o RemovePairs(Tail(s))

\* BasicInterpolation.before_set accepts the value (no lone '%')
before_set_ok(value) ==
    LET tmp == RemovePairs(value)
    IN \A i \in 1..Len(tmp) : tmp[i] # "%"

RECURSIVE before_get(_)
\* BasicInterpolation.before_get on a stored value: "%%" reads as "%"
before_get(raw) ==
    IF raw = <<>> THEN <<>>
    ELSE IF raw[1] = "%" /\ Len(raw) >= 2 /\ raw[2] = "%"
         THEN <<"%">> \o before_get(SubSeq(raw, 3, Len(raw)))
    ELSE <<raw[1]>> \o before_get(Tail(raw))

RECURSIVE lstrip(_)
lstrip(s) == IF s # <<>> /\ s[1] = " " THEN lstrip(Tail(s)) ELSE s

RECURSIVE rstrip(_)
rstrip(s) ==
    IF s # <<>> /\ s[Len(s)] = " " THEN rstrip(SubSeq(s, 1, Len(s) - 1)) ELSE s

\* str.strip() as applied to every value read from the file
strip(s) == rstrip(lstrip(s))

(***************************************************************************)
(* configparser: parser state and file                                     *)
(***************************************************************************)
NoItems == [k \in {} |-> <<>>]
NoSections == [s \in {} |-> NoItems]

\* Config._create_config
DefaultConfig == [s \in {"LOGIN", "TOKEN"} |-> NoItems]

NoFile == [exists |-> FALSE, content |-> NoSections]

\* ConfigParser.write into open(filename, "w")
Write(c) == [exists |-> TRUE, content |-> c]

\* ConfigParser.read
Read(f) ==
    [s \in DOMAIN f.content |->
        [k \in DOMAIN f.content[s] |-> strip(f.content[s][k])]]

\* Config.__init__
NewConfigFrom(f) == IF ~f.exists THEN DefaultConfig ELSE Read(f)

\* variant: removing one section clears the parser
remove_section_clearing(c, section) == NoSections

\* ConfigParser.remove_section
remove_section(c, section) == [s \in DOMAIN c \ {section} |-> c[s]]

\* variant: the write replaces the whole section by the one option
SetOptionReplacingSection(c, section, key, value) ==
    [c EXCEPT ![section] = [k \in {key} |-> value]]

\* self.config[section][key] = value
SetOption(c, section, key, value) ==
    [c EXCEPT ![section] =
        [k \in DOMAIN c[section] \cup {key} |->
            IF k = key THEN value ELSE c[section][k]]]

\* self.config[section].setdefault(key, "")
setdefault(c, section, key) ==
    IF key \in DOMAIN c[section] THEN c ELSE SetOption(c, section, key, <<>>)

\* dict(self.config[section].items())
SectionItems(c, section) ==
    [k \in DOMAIN c[section] |-> before_get(c[section][k])]

\* dict.get(key)
DictGet(d, key) == IF key \in DOMAIN d THEN d[key] ELSE None

\* bool(str or None)
Truthy(v) == v # None /\ v # <<>>

(***************************************************************************)
(* Logging.  The log of a call is the level of the most severe record     *)
(* that the program's own logging statements emit during the call, the     *)
(* calls it makes included ("none": no record): the loggers of             *)
(* utils.config, auth.login and auth.auth_manager and the logging calls of *)
(* main.py.  main.py sets the level to DEBUG, so each of them is emitted.  *)
(* Records written by libraries (httpx logs every request it sends) are    *)
(* not the program's and are not counted.                                  *)
(***************************************************************************)
Level(l) ==
    CASE l = "none" -> 0
      [] l = "debug" -> 10
      [] l = "info" -> 20
      [] l = "warning" -> 30
      [] l = "error" -> 40

MaxLog(a, b) == IF Level(a) >= Level(b) THEN a ELSE b

\* Config(): _create_config logs a debug record, reading a file logs nothing
ConstructorLog(f) == IF f.exists THEN "none" ELSE "debug"

(***************************************************************************)
(* Config: reads.  Each returns the exception raised ("none" if it         *)
(* returns) and the value.                                                 *)
(***************************************************************************)
get_login_details(c) ==
    IF "LOGIN" \in DOMAIN c
    THEN [exc |-> "none", val |-> SectionItems(c, "LOGIN")]
    ELSE [exc |-> "KeyError", val |-> NoItems]

get_token(c) ==
    IF "TOKEN" \in DOMAIN c
    THEN [exc |-> "none", val |-> SectionItems(c, "TOKEN")]
    ELSE [exc |-> "KeyError", val |-> NoItems]

config_exists(c) ==
    IF "LOGIN" \in DOMAIN c
    THEN [exc |-> "none",
          val |-> \A k \in DOMAIN c["LOGIN"] : before_get(c["LOGIN"][k]) # <<>>]
    ELSE [exc |-> "KeyError", val |-> FALSE]

load_auth_data(c) ==
    LET d == get_login_details(c)
    IN [exc |-> d.exc,
        val |-> [email |-> DictGet(d.val, "email"),
                 password |-> DictGet(d.val, "password")]]

user_credentials(c) == load_auth_data(c)

\* variant: a token counts only together with an expiry date
is_logged_in_with_expiry(c) ==
    LET t == get_token(c)
    IN [exc |-> t.exc,
        val |-> /\ t.exc = "none"
                /\ Truthy(DictGet(t.val, "token"))
                /\ Truthy(DictGet(t.val, "expire_date"))]

is_logged_in(c) ==
    LET t == get_token(c)
    IN [exc |-> t.exc, val |-> t.exc = "none" /\ Truthy(DictGet(t.val, "token"))]

(***************************************************************************)
(* Config: writes.  Each returns the parser state and the file it leaves   *)
(* and the exception raised ("none" if it returns).                        *)
(***************************************************************************)
RECURSIVE ApplyKwargs(_, _, _, _)
\* the loop "for key, value in kwargs.items()" of the two setters
ApplyKwargs(c, section, allowed, kwargs) ==
    IF kwargs = <<>> THEN [config |-> c, exc |-> "none"]
    ELSE LET key == Head(kwargs)[1]
             value == Head(kwargs)[2]
         IN IF key \notin allowed THEN [config |-> c, exc |-> "AssertionError"]
            ELSE IF section \notin DOMAIN c THEN [config |-> c, exc |-> "KeyError"]
            ELSE LET c1 == setdefault(c, section, key)
                 IN IF value # <<>> /\ ~before_set_ok(value)
                    THEN [config |-> c1, exc |-> "ValueError"]
                    ELSE ApplyKwargs(SetOption(c1, section, key, value),
                                     section, allowed, Tail(kwargs))

\* variant: the instance reads the file again before it applies the call
SetDetails_rereading_file(c, f, section, allowed, kwargs) ==
    LET r == ApplyKwargs(IF f.exists THEN Read(f) ELSE c, section, allowed, kwargs)
    IN [config |-> r.config,
        file |-> IF r.exc = "none" THEN Write(r.config) ELSE f,
        exc |-> r.exc]

SetDetails(c, f, section, allowed, kwargs) ==
    LET r == ApplyKwargs(c, section, allowed, kwargs)
    IN [config |-> r.config,
        file |-> IF r.exc = "none" THEN Write(r.config) ELSE f,
        exc |-> r.exc]

set_login_details(c, f, kwargs) == SetDetails(c, f, "LOGIN", LoginKeys, kwargs)

set_token(c, f, kwargs) == SetDetails(c, f, "TOKEN", TokenKeys, kwargs)

\* save_auth_data(*args, **kwargs) passes both on to set_login_details,
\* which takes keyword arguments only: a positional argument is a TypeError
\* of the call, before its body runs
save_auth_data(c, f, args, kwargs) ==
    IF args # <<>> THEN [config |-> c, file |-> f, exc |-> "TypeError"]
    ELSE set_login_details(c, f, kwargs)

\* update_tokens_data(*args, **kwargs) passes both on to set_token
update_tokens_data(c, f, args, kwargs) ==
    IF args # <<>> THEN [config |-> c, file |-> f, exc |-> "TypeError"]
    ELSE set_token(c, f, kwargs)

\* variant: deleting a section that is not there raises
delete_section_strict(c, f, section) ==
    IF section \notin DOMAIN c
    THEN [config |-> c, file |-> f, exc |-> "KeyError"]
    ELSE LET c1 == remove_section(c, section)
         IN [config |-> c1, file |-> Write(c1), exc |-> "none"]

delete_section(c, f, section) ==
    LET c1 == remove_section(c, section)
    IN [config |-> c1, file |-> Write(c1), exc |-> "none"]

(***************************************************************************)
(* Login                                                                   *)
(***************************************************************************)
\* variant: a failed attempt is posted a second time before giving up
sign_in_with_email_retrying(status) ==
    IF status # Redirect
    THEN [exc |-> "TypeError", ret |-> FALSE, posts |-> 2]
    ELSE [exc |-> "none", ret |-> TRUE, posts |-> 1]

\* Login.sign_in_with_email, given the status code of the response to its
\* POST; posts counts the requests it issues.  The raise statement builds
\* httpx.HTTPStatusError(message) without its required keyword arguments
\* request and response, so what leaves the call is the TypeError of that
\* constructor.
sign_in_with_email(status) ==
    IF status # Redirect
    THEN [exc |-> "TypeError", ret |-> FALSE, posts |-> 1]
    ELSE [exc |-> "none", ret |-> TRUE, posts |-> 1]

\* Login.get_cookies: the jar as a dict; iterating it yields the names in
\* insertion order
get_cookies(jar) == jar

CookieNamesOf(cookies) == [i \in 1..Len(cookies) |-> cookies[i][1]]

(***************************************************************************)
(* AuthenticationManager                                                   *)
(***************************************************************************)
RECURSIVE PersistToken(_, _, _)
\* "for cookie in cookies: if cookie[0] == 'token': set_token(token=cookie[1])"
\* where cookie is an element of the iteration over the dict, a name
PersistToken(c, f, names) ==
    IF names = <<>> THEN [config |-> c, file |-> f, exc |-> "none"]
    ELSE LET cookie == Head(names)
         IN IF Len(cookie) < 1 THEN [config |-> c, file |-> f, exc |-> "IndexError"]
            ELSE IF SubSeq(cookie, 1, 1) = TokenName
            THEN IF Len(cookie) < 2
                 THEN [config |-> c, file |-> f, exc |-> "IndexError"]
                 ELSE LET r == set_token(c, f, << <<"token", SubSeq(cookie, 2, 2)>> >>)
                      IN IF r.exc # "none" THEN r
                         ELSE PersistToken(r.config, r.file, Tail(names))
            ELSE PersistToken(c, f, Tail(names))

\* variant: the credentials are persisted before the sign-in is attempted
set_up_authentication_persisting_first(c, f, email, password, status, jar) ==
    LET s == sign_in_with_email(status)
        l == set_login_details(c, f, << <<"email", email>>, <<"password", password>> >>)
    IN IF s.exc # "none"
       THEN [config |-> l.config, file |-> l.file, exc |-> s.exc, ret |-> "NoReturn",
             log |-> "none", posts |-> s.posts]
       ELSE LET t == PersistToken(l.config, l.file, CookieNamesOf(get_cookies(jar)))
            IN [config |-> t.config, file |-> t.file, exc |-> "none",
                ret |-> IF l.exc = "none" /\ t.exc = "none" THEN "True" ELSE "False",
                log |-> IF l.exc = "none" /\ t.exc = "none" THEN "debug" ELSE "error",
                posts |-> s.posts]

set_up_authentication(c, f, email, password, status, jar) ==
    LET s == sign_in_with_email(status)
    IN IF s.exc # "none"
       THEN [config |-> c, file |-> f, exc |-> s.exc, ret |-> "NoReturn", log |-> "none",
             posts |-> s.posts]
       ELSE IF ~s.ret
       THEN [config |-> c, file |-> f, exc |-> "none", ret |-> "False", log |-> "error",
             posts |-> s.posts]
       ELSE LET cookies == get_cookies(jar)
                l == set_login_details(c, f, << <<"email", email>>, <<"password", password>> >>)
            IN IF l.exc # "none"
               THEN [config |-> l.config, file |-> l.file, exc |-> "none",
                     ret |-> "False", log |-> "error", posts |-> s.posts]
               ELSE LET t == PersistToken(l.config, l.file, CookieNamesOf(cookies))
                    IN [config |-> t.config, file |-> t.file, exc |-> "none",
                        ret |-> IF t.exc = "none" THEN "True" ELSE "False",
                        log |-> IF t.exc = "none" THEN "debug" ELSE "error",
                        posts |-> s.posts]

tear_down_authentication(c, f) == delete_section(c, f, "TOKENS")

NoClient == [kind |-> "None", auth |-> <<None, None>>, user_agent |-> "", cookies |-> NoItems]

\* httpx.BasicAuth(username, password) builds its header in the constructor
\* and raises TypeError when either part is None
BasicAuthOK(username, password) == username # None /\ password # None

\* the try block of authenticate: the exception it raises ("none" if it
\* reaches the return) and the client it builds
authenticate_try(c) ==
    LET user_data == load_auth_data(c)
        token == get_token(c)
    IN IF user_data.exc # "none" THEN [exc |-> user_data.exc, ret |-> NoClient]
       ELSE IF ~BasicAuthOK(user_data.val.email, user_data.val.password)
       THEN [exc |-> "TypeError", ret |-> NoClient]
       ELSE IF token.exc # "none" THEN [exc |-> token.exc, ret |-> NoClient]
       ELSE [exc |-> "none",
             ret |-> [kind |-> "Client",
                      auth |-> <<user_data.val.email, user_data.val.password>>,
                      user_agent |-> USER_AGENT,
                      cookies |-> token.val]]

\* variant: the client is built without the stored token cookies
authenticate_without_cookies(c) ==
    LET b == authenticate_try(c)
    IN IF b.exc = "none"
       THEN [exc |-> "none", ret |-> [b.ret EXCEPT !.cookies = NoItems], log |-> "debug"]
       ELSE IF b.exc \in {"FileNotFoundError", "KeyError"}
       THEN [exc |-> "none", ret |-> NoClient, log |-> "warning"]
       ELSE [exc |-> "none", ret |-> NoClient, log |-> "error"]

\* variant: only the two named exceptions are handled
authenticate_without_generic_handler(c) ==
    LET b == authenticate_try(c)
    IN IF b.exc = "none" THEN [exc |-> "none", ret |-> b.ret, log |-> "debug"]
       ELSE IF b.exc \in {"FileNotFoundError", "KeyError"}
       THEN [exc |-> "none", ret |-> NoClient, log |-> "warning"]
       ELSE [exc |-> b.exc, ret |-> NoClient, log |-> "none"]

\* authenticate: the try block and its three handlers
authenticate(c) ==
    LET b == authenticate_try(c)
    IN IF b.exc = "none" THEN [exc |-> "none", ret |-> b.ret, log |-> "debug"]
       ELSE IF b.exc = "FileNotFoundError"
       THEN [exc |-> "none", ret |-> NoClient, log |-> "warning"]
       ELSE IF b.exc = "KeyError"
       THEN [exc |-> "none", ret |-> NoClient, log |-> "warning"]
       ELSE [exc |-> "none", ret |-> NoClient, log |-> "error"]

(***************************************************************************)
(* Inputs                                                                  *)
(***************************************************************************)
ValuesFor(key) ==
    CASE key = "email" -> EmailInputs
      [] key = "password" -> PasswordInputs
      [] key = "token" -> TokenInputs
      [] key = "expire_date" -> ExpireInputs
      [] OTHER -> OtherInputs

PairsOver(keys) == UNION { {<<k, v>> : v \in ValuesFor(k)} : k \in keys }

\* keyword arguments: every key at most once, in call order
KwargsOver(keys) ==
    { kw \in UNION { [1..n -> PairsOver(keys)] : n \in 0..MaxArgs } :
        \A i, j \in 1..Len(kw) : i # j => kw[i][1] # kw[j][1] }

LoginKwargs == KwargsOver(LoginKeys \cup {"invalid_key"})
TokenKwargs == KwargsOver(TokenKeys \cup {"invalid_key"})

\* calls of save_auth_data / update_tokens_data: the keyword calls of the
\* class docstring (both keys of the section), and a positional argument
WrapperCalls(first, second) ==
    { [args |-> <<>>, kwargs |-> << <<first, v>>, <<second, w>> >>] :
        v \in ValuesFor(first), w \in ValuesFor(second) }
    \cup { [args |-> <<v>>, kwargs |-> <<>>] : v \in OtherInputs }

(***************************************************************************)
(* State machine: one Config instance (the one AuthenticationManager       *)
(* holds) over one backing file.  last records the latest call.            *)
(* other_config is a second Config instance over the same file (main.py    *)
(* constructs one for itself as config_obj); the calls below go through    *)
(* the manager's instance and leave it alone.  pc is the position of the   *)
(* script main.py; the calls below are made while it is not running.       *)
(***************************************************************************)
Init ==
    /\ file = NoFile
    /\ config = NewConfigFrom(NoFile)
    /\ other_config = NewConfigFrom(NoFile)
    /\ pc = "start"
    /\ last = [op |-> "__init__", args |-> <<>>, exc |-> "none", ret |-> "None", client |-> NoClient, log |-> ConstructorLog(NoFile), posts |-> 0]

\* Config(): a new instance over the same file (process restart)
NewConfig ==
    /\ config' = NewConfigFrom(file)
    /\ file' = file
    /\ other_config' = other_config
    /\ pc' = pc
    /\ last' = [op |-> "__init__", args |-> <<>>, exc |-> "none", ret |-> "None", client |-> NoClient, log |-> ConstructorLog(file), posts |-> 0]

\* os.remove / os.unlink of the backing file
RemoveFile ==
    /\ file.exists
    /\ file' = NoFile
    /\ other_config' = other_config
    /\ pc' = pc
    /\ config' = config
    /\ last' = [op |-> "remove", args |-> <<>>, exc |-> "none", ret |-> "None", client |-> NoClient, log |-> "none", posts |-> 0]

SetLoginDetails ==
    \E kwargs \in LoginKwargs :
        LET r == set_login_details(config, file, kwargs)
        IN /\ config' = r.config
           /\ file' = r.file
           /\ other_config' = other_config
           /\ pc' = pc
           /\ last' = [op |-> "set_login_details", args |-> kwargs, exc |-> r.exc,
                       ret |-> "None", client |-> NoClient, log |-> "debug", posts |-> 0]

SetToken ==
    \E kwargs \in TokenKwargs :
        LET r == set_token(config, file, kwargs)
        IN /\ config' = r.config
           /\ file' = r.file
           /\ other_config' = other_config
           /\ pc' = pc
           /\ last' = [op |-> "set_token", args |-> kwargs, exc |-> r.exc,
                       ret |-> "None", client |-> NoClient, log |-> "debug", posts |-> 0]

SaveAuthData ==
    \E call \in WrapperCalls("email", "password") :
        LET r == save_auth_data(config, file, call.args, call.kwargs)
        IN /\ config' = r.config
           /\ file' = r.file
           /\ other_config' = other_config
           /\ pc' = pc
           /\ last' = [op |-> "save_auth_data",
                       args |-> call, exc |-> r.exc,
                       ret |-> "None", client |-> NoClient,
                       log |-> IF call.args # <<>> THEN "none" ELSE "debug",
                       posts |-> 0]

UpdateTokensData ==
    \E call \in WrapperCalls("token", "expire_date") :
        LET r == update_tokens_data(config, file, call.args, call.kwargs)
        IN /\ config' = r.config
           /\ file' = r.file
           /\ other_config' = other_config
           /\ pc' = pc
           /\ last' = [op |-> "update_tokens_data",
                       args |-> call, exc |-> r.exc,
                       ret |-> "None", client |-> NoClient,
                       log |-> IF call.args # <<>> THEN "none" ELSE "debug",
                       posts |-> 0]

DeleteSection ==
    \E section \in SectionNames :
        LET r == delete_section(config, file, section)
        IN /\ config' = r.config
           /\ file' = r.file
           /\ other_config' = other_config
           /\ pc' = pc
           /\ last' = [op |-> "delete_section", args |-> section, exc |-> r.exc,
                       ret |-> "None", client |-> NoClient, log |-> "debug", posts |-> 0]

SetUpAuthentication ==
    \E email \in EmailInputs, password \in PasswordInputs,
       status \in StatusCodes, jar \in CookieJars :
        LET r == set_up_authentication(config, file, email, password, status, jar)
        IN /\ config' = r.config
           /\ file' = r.file
           /\ other_config' = other_config
           /\ pc' = pc
           /\ last' = [op |-> "set_up_authentication",
                       args |-> [email |-> email, password |-> password,
                                 status |-> status, jar |-> jar],
                       exc |-> r.exc, ret |-> r.ret, client |-> NoClient, log |-> r.log,
                       posts |-> r.posts]

\* Login(email, password).sign_in_with_email()
SignInWithEmail ==
    \E status \in StatusCodes :
        LET r == sign_in_with_email(status)
        IN /\ config' = config
           /\ file' = file
           /\ other_config' = other_config
           /\ pc' = pc
           /\ last' = [op |-> "sign_in_with_email", args |-> status, exc |-> r.exc,
                       ret |-> IF r.exc # "none" THEN "NoReturn"
                               ELSE IF r.ret THEN "True" ELSE "False",
                       client |-> NoClient,
                       log |-> IF r.exc = "none" THEN "debug" ELSE "none",
                       posts |-> r.posts]

TearDownAuthentication ==
    LET r == tear_down_authentication(config, file)
    IN /\ config' = r.config
       /\ file' = r.file
       /\ other_config' = other_config
       /\ pc' = pc
       /\ last' = [op |-> "tear_down_authentication", args |-> <<>>, exc |-> r.exc,
                   ret |-> "None", client |-> NoClient, log |-> "debug", posts |-> 0]

Authenticate ==
    LET r == authenticate(config)
    IN /\ config' = config
       /\ file' = file
       /\ other_config' = other_config
       /\ pc' = pc
       /\ last' = [op |-> "authenticate", args |-> <<>>, exc |-> r.exc,
                   ret |-> IF r.exc = "none" THEN r.ret.kind ELSE "NoReturn",
                   client |-> r.ret, log |-> r.log, posts |-> 0]

Next ==
    \/ NewConfig
    \/ RemoveFile
    \/ SetLoginDetails
    \/ SetToken
    \/ SaveAuthData
    \/ UpdateTokensData
    \/ DeleteSection
    \/ SetUpAuthentication
    \/ SignInWithEmail
    \/ TearDownAuthentication
    \/ Authenticate

Spec == Init /\ [][Next]_vars

(***************************************************************************)
(* Two Config instances over one file: config (the manager's) and          *)
(* other_config (the script's), each constructed from the file and then    *)
(* written through.  last.self names the instance of the latest call.      *)
(***************************************************************************)
Instances == {"config", "other_config"}

\* self.config of the instance
Memory(inst) == IF inst = "config" THEN config ELSE other_config

\* the calls made through either instance
SharedLoginKwargs ==
    { << <<"email", e>>, <<"password", p>> >> :
        e \in EmailInputs, p \in {v \in PasswordInputs : RemovePairs(v) = v} }
SharedTokenKwargs ==
    { << <<"token", t>> >> : t \in TokenInputs \ {<<>>} }
    \cup { << <<"expire_date", d>> >> : d \in ExpireInputs }

\* the instance inst made the call op(args) with the outcome r
CallBy(inst, op, args, r) ==
    /\ config' = IF inst = "config" THEN r.config ELSE config
    /\ other_config' = IF inst = "other_config" THEN r.config ELSE other_config
    /\ pc' = pc
    /\ file' = r.file
    /\ last' = [op |-> op, args |-> args, exc |-> r.exc, ret |-> "None",
                client |-> NoClient,
                log |-> IF op = "__init__" THEN ConstructorLog(file) ELSE "debug",
                posts |-> 0, self |-> inst]

InitShared ==
    /\ file = NoFile
    /\ config = NewConfigFrom(NoFile)
    /\ other_config = NewConfigFrom(NoFile)
    /\ pc = "start"
    /\ last = [op |-> "__init__", args |-> <<>>, exc |-> "none", ret |-> "None",
               client |-> NoClient, log |-> ConstructorLog(NoFile), posts |-> 0,
               self |-> "config"]

\* Config(): the instance is constructed anew over the file
SharedNewConfig ==
    \E inst \in Instances :
        CallBy(inst, "__init__", <<>>,
               [config |-> NewConfigFrom(file), file |-> file, exc |-> "none"])

SharedSetLoginDetails ==
    \E inst \in Instances, kwargs \in SharedLoginKwargs :
        CallBy(inst, "set_login_details", kwargs,
               set_login_details(Memory(inst), file, kwargs))

SharedSetToken ==
    \E inst \in Instances, kwargs \in SharedTokenKwargs :
        CallBy(inst, "set_token", kwargs, set_token(Memory(inst), file, kwargs))

SharedDeleteSection ==
    \E inst \in Instances, section \in SectionNames :
        CallBy(inst, "delete_section", section,
               delete_section(Memory(inst), file, section))

NextShared ==
    \/ SharedNewConfig
    \/ SharedSetLoginDetails
    \/ SharedSetToken
    \/ SharedDeleteSection

SpecShared == InitShared /\ [][NextShared]_vars

(***************************************************************************)
(* Process start: the bootstrap of main.py over the config.ini it finds.   *)
(* The script waits for the response to each login POST, so it is a step   *)
(* up to the first POST and one step per response; other_config is its     *)
(* config_obj and config the instance of its AuthenticationManager.        *)
(***************************************************************************)
\* email = "example@mail.com"; password = "password123"
DefaultEmail == <<"e", "x", "a", "m", "p", "l", "e", "@", "m", "a", "i", "l", ".", "c", "o", "m">>
DefaultPassword == <<"p", "a", "s", "s", "w", "o", "r", "d", "1", "2", "3">>

\* str(value): the text "None" for None, a string is itself
str(v) == IF v = None THEN <<"N", "o", "n", "e">> ELSE v

\* {"token": "", "expire_date": ""}
EmptyToken == [k \in TokenKeys |-> <<>>]

\* email and password of lines 38-39, read from config_obj
StoredEmail == str(DictGet(get_login_details(other_config).val, "email"))
StoredPassword == str(DictGet(get_login_details(other_config).val, "password"))

\* what last records of the running script: the branch taken in ret, the
\* statuses of the login responses received so far in args, the POSTs
\* issued so far in posts
Script(branch, exc, log, posts) ==
    [op |-> "main", args |-> <<>>, exc |-> exc, ret |-> branch,
     client |-> NoClient, log |-> log, posts |-> posts]

\* the script after the response to a POST was handled by the
\* set_up_authentication call r; again is TRUE when the script goes on to
\* call set_up_authentication once more
AfterResponse(status, r, again) ==
    [last EXCEPT !.args = Append(@, status),
                 !.exc = r.exc,
                 !.log = MaxLog(@, r.log),
                 !.posts = IF again /\ r.exc = "none" THEN @ + 1 ELSE @]

\* values a stored key can hold when the process starts
StartValues == {<<>>, <<"v">>}

\* the sections a setter can have written: any of the keys, each with a value
StartSections(keys) == UNION { [d -> StartValues] : d \in SUBSET keys }

\* the config.ini files a process can find: none, or one written by an
\* earlier run (each section deleted or holding any of its keys)
StartFiles ==
    {NoFile} \cup
    { Write(c) : c \in
        { [s \in {"LOGIN", "TOKEN"} |-> IF s = "LOGIN" THEN l ELSE t] :
                l \in StartSections(LoginKeys), t \in StartSections(TokenKeys) }
        \cup { [s \in {"LOGIN"} |-> l] : l \in StartSections(LoginKeys) }
        \cup { [s \in {"TOKEN"} |-> t] : t \in StartSections(TokenKeys) }
        \cup { NoSections } }

InitBoot ==
    /\ file \in StartFiles
    /\ config = NewConfigFrom(file)
    /\ other_config = NewConfigFrom(file)
    /\ pc = "start"
    /\ last = [op |-> "__init__", args |-> <<>>, exc |-> "none", ret |-> "None", client |-> NoClient, log |-> ConstructorLog(file), posts |-> 0]

\* python main.py, lines 24-42 and 48-52: config_obj is built over the file
\* and the branch is chosen; in the login branches the script removes the
\* file (line 41), builds the manager and waits for the response to the
\* POST of its first set_up_authentication call.  A KeyError is caught by
\* lines 55-56.
Start ==
    /\ pc \in {"start", "done"}
    /\ other_config' = NewConfigFrom(file)
    /\ IF \/ config_exists(NewConfigFrom(file)).exc = "KeyError"
          \/ /\ config_exists(NewConfigFrom(file)).val
             /\ get_token(NewConfigFrom(file)).exc = "KeyError"
       THEN /\ config' = NewConfigFrom(file)
            /\ file' = file
            /\ pc' = "done"
            /\ last' = Script("except_KeyError", "none", "error", 0)
       ELSE IF /\ config_exists(NewConfigFrom(file)).val
               /\ get_token(NewConfigFrom(file)).val # EmptyToken
       THEN /\ config' = NewConfigFrom(file)
            /\ file' = file
            /\ pc' = "done"
            /\ last' = Script("token_found", "none", "info", 0)
       ELSE IF config_exists(NewConfigFrom(file)).val /\ ~file.exists
       THEN /\ config' = NewConfigFrom(file)
            /\ file' = file
            /\ pc' = "done"
            /\ last' = Script("no_token", "FileNotFoundError", "info", 0)
       ELSE IF config_exists(NewConfigFrom(file)).val
       THEN /\ config' = NewConfigFrom(NoFile)
            /\ file' = NoFile
            /\ pc' = "line43"
            /\ last' = Script("no_token", "none", "info", 1)
       ELSE /\ config' = NewConfigFrom(file)
            /\ file' = file
            /\ pc' = "line53"
            /\ last' = Script("no_config", "none", "info", 1)

\* line 43: the response to the first POST arrives and the first
\* set_up_authentication call completes; if it returns, the script calls
\* it again (line 45) and waits for the second response
Line43 ==
    /\ pc = "line43"
    /\ \E status \in StatusCodes, jar \in CookieJars :
        LET r == set_up_authentication(config, file, StoredEmail, StoredPassword,
                                       status, jar)
        IN /\ config' = r.config
           /\ file' = r.file
           /\ other_config' = other_config
           /\ pc' = IF r.exc = "none" THEN "line45" ELSE "done"
           /\ last' = AfterResponse(status, r, TRUE)

\* line 45: the response to the second POST arrives
Line45 ==
    /\ pc = "line45"
    /\ \E status \in StatusCodes, jar \in CookieJars :
        LET r == set_up_authentication(config, file, StoredEmail, StoredPassword,
                                       status, jar)
        IN /\ config' = r.config
           /\ file' = r.file
           /\ other_config' = other_config
           /\ pc' = "done"
           /\ last' = AfterResponse(status, r, FALSE)

\* line 53: the response to the POST of the first-run login arrives
Line53 ==
    /\ pc = "line53"
    /\ \E status \in StatusCodes, jar \in CookieJars :
        LET r == set_up_authentication(config, file, DefaultEmail, DefaultPassword,
                                       status, jar)
        IN /\ config' = r.config
           /\ file' = r.file
           /\ other_config' = other_config
           /\ pc' = "done"
           /\ last' = AfterResponse(status, r, FALSE)

NextBoot ==
    \/ Start
    \/ Line43
    \/ Line45
    \/ Line53

SpecBoot == InitBoot /\ [][NextBoot]_vars

(***************************************************************************)
(* Helpers of the properties                                               *)
(***************************************************************************)
HasTokenCookie(jar) == \E i \in 1..Len(jar) : jar[i][1] = TokenName

HasUnrecognized(kwargs, allowed) == \E i \in 1..Len(kwargs) : kwargs[i][1] \notin allowed

\* the call set_token(token=t)
IsTokenOnly(kwargs) == Len(kwargs) = 1 /\ kwargs[1][1] = "token"

\* the store reports a non-empty email and a non-empty password
HasCredentials(c) ==
    /\ get_login_details(c).exc = "none"
    /\ Truthy(DictGet(get_login_details(c).val, "email"))
    /\ Truthy(DictGet(get_login_details(c).val, "password"))

\* the store reports a non-empty token
HasToken(c) == is_logged_in(c).exc = "none" /\ is_logged_in(c).val

\* a store just created over no file, nothing written
FreshStore == config = DefaultConfig /\ ~file.exists

(***************************************************************************)
(* C1: after set_up_authentication(email, password) with non-empty email   *)
(* and password whose login response is a 302 carrying a cookie 'token'    *)
(* with value t, the store reports is_logged_in and get_token()['token']   *)
(* is t.                                                                   *)
(***************************************************************************)
C1_SetUpStoresToken ==
    ( /\ last.op = "set_up_authentication"
      /\ last.args.status = Redirect
      /\ last.args.email # <<>>
      /\ last.args.password # <<>>
      /\ HasTokenCookie(last.args.jar) )
    => /\ HasToken(config)
       /\ \A i \in 1..Len(last.args.jar) :
            last.args.jar[i][1] = TokenName
                => DictGet(get_token(config).val, "token") = last.args.jar[i][2]

(***************************************************************************)
(* C2: when the login response has a status other than 302,                *)
(* set_up_authentication returns False and raises nothing.                 *)
(***************************************************************************)
C2_FailedLoginReturnsFalse ==
    (last.op = "set_up_authentication" /\ last.args.status # Redirect)
    => (last.exc = "none" /\ last.ret = "False")

(***************************************************************************)
(* C3: tear_down_authentication() called while a token is stored leaves    *)
(* no non-empty token in the store and leaves the stored email and         *)
(* password as they were.                                                  *)
(***************************************************************************)
C3_TearDownRemovesSession ==
    [][ (last'.op = "tear_down_authentication" /\ HasToken(config))
        => (~HasToken(config') /\ get_login_details(config') = get_login_details(config)) ]_vars

(***************************************************************************)
(* C4: whenever a non-empty email and password are stored, with or without *)
(* a token and also when the session section was deleted, authenticate()   *)
(* returns a client configuration.                                         *)
(***************************************************************************)
C4_ClientWheneverCredentials ==
    HasCredentials(config) => authenticate(config).ret.kind = "Client"

(***************************************************************************)
(* C5: after delete_section on the credential or the session section, the  *)
(* reads of that section return no data (empty map, False) and raise       *)
(* nothing.                                                                *)
(***************************************************************************)
C5_ReadsAfterDeleteAreEmpty ==
    (last.op = "delete_section" /\ last.args \in {"LOGIN", "TOKEN"})
    => IF last.args = "LOGIN"
       THEN /\ get_login_details(config) = [exc |-> "none", val |-> NoItems]
            /\ config_exists(config) = [exc |-> "none", val |-> FALSE]
            /\ load_auth_data(config).exc = "none"
       ELSE /\ get_token(config) = [exc |-> "none", val |-> NoItems]
            /\ is_logged_in(config) = [exc |-> "none", val |-> FALSE]

(***************************************************************************)
(* C6: a setter called with at least one unrecognized key raises           *)
(* AssertionError and leaves the in-memory sections and the file exactly   *)
(* as they were before the call.                                           *)
(***************************************************************************)
C6_RejectedCallChangesNothing ==
    [][ ( \/ (last'.op = "set_login_details" /\ HasUnrecognized(last'.args, LoginKeys))
          \/ (last'.op = "set_token" /\ HasUnrecognized(last'.args, TokenKeys)) )
        => (last'.exc = "AssertionError" /\ config' = config /\ file' = file) ]_vars

(***************************************************************************)
(* C7 as claimed: after set_token(token=t) the session record holds t and  *)
(* an empty expire_date, nothing of the previous record remains.           *)
(***************************************************************************)
C7_TokenWriteReplacesRecord ==
    (last.op = "set_token" /\ IsTokenOnly(last.args) /\ last.exc = "none")
    => /\ config["TOKEN"]["token"] = last.args[1][2]
       /\ DictGet(config["TOKEN"], "expire_date") \in {None, <<>>}

(***************************************************************************)
(* C7 as amended: a set_token(token=t) that returns writes t into the      *)
(* token field only; every other field of the session record is present    *)
(* afterwards exactly when it was present before, with the value it had,   *)
(* and the credential section is untouched.                                *)
(***************************************************************************)
C7_TokenWriteKeepsOtherFields ==
    [][ (last'.op = "set_token" /\ IsTokenOnly(last'.args) /\ last'.exc = "none")
        => /\ "TOKEN" \in DOMAIN config
           /\ config'["TOKEN"]["token"] = last'.args[1][2]
           /\ DOMAIN config'["TOKEN"] = DOMAIN config["TOKEN"] \cup {"token"}
           /\ \A k \in DOMAIN config["TOKEN"] \ {"token"} :
                config'["TOKEN"][k] = config["TOKEN"][k]
           /\ DOMAIN config' = DOMAIN config
           /\ \A s \in DOMAIN config \ {"TOKEN"} : config'[s] = config[s] ]_vars

C7_Witness ==
    /\ last.op = "set_token" /\ IsTokenOnly(last.args) /\ last.exc = "none"
    /\ last.args[1][2] # <<>>
    /\ "expire_date" \in DOMAIN config["TOKEN"]
    /\ config["TOKEN"]["expire_date"] # <<>>

(***************************************************************************)
(* C8: with the session section deleted (on this instance, or on an        *)
(* instance loaded from the file written by the deletion), set_token with  *)
(* a non-empty token returns without raising, the store is then logged in  *)
(* and the credentials are untouched.                                      *)
(***************************************************************************)
C8_SetTokenAfterDelete ==
    [][ ( /\ last'.op = "set_token" /\ IsTokenOnly(last'.args)
          /\ last'.args[1][2] # <<>>
          /\ "TOKEN" \notin DOMAIN config )
        => ( /\ last'.exc = "none"
             /\ HasToken(config')
             /\ get_login_details(config') = get_login_details(config) ) ]_vars

(***************************************************************************)
(* C9: whenever the store reports a non-empty email e, password p and      *)
(* token t, authenticate() returns a client configuration with basic-auth  *)
(* (e, p), the fixed User-Agent and t under the cookie name 'token'; the   *)
(* result of the latest authenticate() call is the one built from the      *)
(* store as it is now.                                                     *)
(***************************************************************************)
C9_ClientFromStore ==
    (HasCredentials(config) /\ HasToken(config))
    => LET e == get_login_details(config).val["email"]
           p == get_login_details(config).val["password"]
           t == get_token(config).val["token"]
           Good(r) == /\ r.kind = "Client"
                      /\ r.auth = <<e, p>>
                      /\ r.user_agent = USER_AGENT
                      /\ "token" \in DOMAIN r.cookies
                      /\ r.cookies["token"] = t
       IN /\ Good(authenticate(config).ret)
          /\ last.op = "authenticate" => Good(last.client)

C9_Witness ==
    /\ last.op = "authenticate"
    /\ HasCredentials(config) /\ HasToken(config)
    /\ last.ret = "Client"
    /\ last.client.auth = << <<"a">>, <<"b">> >>

(***************************************************************************)
(* C10: authenticate() on a freshly created store with no prior writes     *)
(* returns None and logs at warning severity.                              *)
(***************************************************************************)
C10_FreshAuthenticateWarns ==
    (last.op = "authenticate" /\ FreshStore)
    => (last.ret = "None" /\ last.log = "warning")

(***************************************************************************)
(* C11: authenticate() never raises: in every reachable store state it     *)
(* returns a client configuration or None.                                 *)
(***************************************************************************)
C11_AuthenticateNeverRaises ==
    /\ authenticate(config).exc = "none"
    /\ authenticate(config).ret.kind \in {"Client", "None"}
    /\ last.op = "authenticate" => (last.exc = "none" /\ last.ret \in {"Client", "None"})

C11_Witness ==
    /\ last.op = "authenticate"
    /\ authenticate_try(config).exc = "TypeError"
    /\ last.ret = "None"

(***************************************************************************)
(* C12: config_exists() is True exactly when the credential section holds  *)
(* a non-empty email and a non-empty password; it is False for an empty    *)
(* section and for a section with one of the two keys.                     *)
(***************************************************************************)
C12_ExistsIffBothKeys ==
    "LOGIN" \in DOMAIN config
    => /\ config_exists(config).exc = "none"
       /\ config_exists(config).val
            <=> ( /\ Truthy(DictGet(get_login_details(config).val, "email"))
                  /\ Truthy(DictGet(get_login_details(config).val, "password")) )

(***************************************************************************)
(* C13: get_login_details() and get_token() return a map with every key of *)
(* the section's key set, the empty string for a key never written, and    *)
(* do not raise.                                                           *)
(***************************************************************************)
C13_GettersReturnAllKeys ==
    ("LOGIN" \in DOMAIN config /\ "TOKEN" \in DOMAIN config)
    => /\ get_login_details(config).exc = "none"
       /\ get_token(config).exc = "none"
       /\ \A k \in LoginKeys :
            DictGet(get_login_details(config).val, k)
                = IF k \in DOMAIN config["LOGIN"] THEN before_get(config["LOGIN"][k]) ELSE <<>>
       /\ \A k \in TokenKeys :
            DictGet(get_token(config).val, k)
                = IF k \in DOMAIN config["TOKEN"] THEN before_get(config["TOKEN"][k]) ELSE <<>>

(***************************************************************************)
(* C14: while the session section exists, is_logged_in is True exactly     *)
(* when the stored token is non-empty, whatever the stored expire_date is  *)
(* (absent, empty or any date).                                            *)
(***************************************************************************)
C14_LoggedInIffToken ==
    "TOKEN" \in DOMAIN config
    => /\ is_logged_in(config).exc = "none"
       /\ is_logged_in(config).val
            <=> ("token" \in DOMAIN config["TOKEN"] /\ config["TOKEN"]["token"] # <<>>)
       /\ \A d \in ExpireInputs \cup {<<>>} :
            is_logged_in(SetOption(config, "TOKEN", "expire_date", d)).val
                = is_logged_in(config).val

C14_Witness ==
    /\ "TOKEN" \in DOMAIN config
    /\ "token" \in DOMAIN config["TOKEN"]
    /\ config["TOKEN"]["token"] # <<>>
    /\ "expire_date" \notin DOMAIN config["TOKEN"]
    /\ is_logged_in(config).val

(***************************************************************************)
(* C15: after a setter returns, the getters return exactly the values      *)
(* written, on the writing instance and on a new instance constructed      *)
(* over the same file.                                                     *)
(***************************************************************************)
C15_RoundTrip ==
    ( /\ last.op \in {"set_login_details", "set_token"}
      /\ last.exc = "none"
      /\ Len(last.args) = 2
      /\ last.args[1][1] # last.args[2][1] )
    => LET fresh == NewConfigFrom(file)
           Get(c) == IF last.op = "set_login_details"
                     THEN get_login_details(c) ELSE get_token(c)
       IN /\ Get(config).exc = "none"
          /\ Get(fresh).exc = "none"
          /\ \A i \in 1..Len(last.args) :
                /\ DictGet(Get(config).val, last.args[i][1]) = last.args[i][2]
                /\ DictGet(Get(fresh).val, last.args[i][1]) = last.args[i][2]
          /\ last.op = "set_login_details"
                => \A i \in 1..Len(last.args) :
                     /\ user_credentials(config).val[last.args[i][1]] = last.args[i][2]
                     /\ user_credentials(fresh).val[last.args[i][1]] = last.args[i][2]

(***************************************************************************)
(* C16: when sign-in succeeds (302) set_up_authentication raises nothing;  *)
(* unless persisting raises (then it returns False) it returns True with   *)
(* or without a 'token' cookie, get_login_details() is then the given      *)
(* pair, and without a 'token' cookie the stored token is unchanged.       *)
(***************************************************************************)
C16_SetUpPersistsCredentials ==
    [][ (last'.op = "set_up_authentication" /\ last'.args.status = Redirect)
        => /\ last'.exc = "none"
           /\ IF set_login_details(config, file,
                    << <<"email", last'.args.email>>,
                       <<"password", last'.args.password>> >>).exc # "none"
              THEN last'.ret = "False"
              ELSE /\ last'.ret = "True"
                   /\ get_login_details(config')
                        = [exc |-> "none",
                           val |-> [email |-> last'.args.email,
                                    password |-> last'.args.password]]
                   /\ ~HasTokenCookie(last'.args.jar)
                        => get_token(config') = get_token(config) ]_vars

(***************************************************************************)
(* C17: a call of sign_in_with_email() issues exactly one POST; it returns *)
(* True when the status is 302 and for every other status it raises and    *)
(* returns nothing.                                                        *)
(***************************************************************************)
C17_OnePostTrueIff302 ==
    last.op = "sign_in_with_email"
    => /\ last.posts = 1
       /\ last.args = Redirect => (last.exc = "none" /\ last.ret = "True")
       /\ last.args # Redirect => (last.exc # "none" /\ last.ret = "NoReturn")

C17_Witness ==
    /\ last.op = "sign_in_with_email"
    /\ last.args # Redirect
    /\ last.exc = "TypeError"
    /\ last.posts = 1

(***************************************************************************)
(* C18: tear_down_authentication() raises nothing, also when no session    *)
(* exists, and a second call right after it raises nothing and leaves the  *)
(* store and the file as the first call left them.                         *)
(***************************************************************************)
C18_TearDownIdempotent ==
    [][ last'.op = "tear_down_authentication"
        => /\ last'.exc = "none"
           /\ tear_down_authentication(config', file')
                = [config |-> config', file |-> file', exc |-> "none"] ]_vars

C18_Witness ==
    /\ last.op = "tear_down_authentication"
    /\ last.exc = "none"
    /\ ~HasToken(config)
    /\ file = Write(config)

(***************************************************************************)
(* C19: after delete_section(name) the name is not among the sections and  *)
(* every other section is there with its keys and values unchanged;        *)
(* deleting a name that does not exist raises nothing and changes no       *)
(* section.                                                                *)
(***************************************************************************)
C19_DeleteOnlyThatSection ==
    [][ last'.op = "delete_section"
        => /\ last'.exc = "none"
           /\ DOMAIN config' = DOMAIN config \ {last'.args}
           /\ \A s \in DOMAIN config \ {last'.args} : config'[s] = config[s] ]_vars

C19_Witness ==
    /\ last.op = "delete_section"
    /\ last.args = "TOKEN"
    /\ "TOKEN" \notin DOMAIN config
    /\ "LOGIN" \in DOMAIN config
    /\ "password" \in DOMAIN config["LOGIN"]

(***************************************************************************)
(* C20: whenever the store holds no non-empty token when the process       *)
(* starts (in particular with no configuration file) the bootstrap calls   *)
(* set_up_authentication, with the stored or the default credentials, and  *)
(* does not treat the stored state as an existing session.                 *)
(***************************************************************************)
C20_BootstrapLogsIn ==
    [][ ( /\ pc \in {"start", "done"}
          /\ last'.op = "main"
          /\ last'.args = <<>>
          /\ ~HasToken(NewConfigFrom(file)) )
        => /\ last'.ret \in {"no_token", "no_config"}
           /\ pc' \in {"line43", "line53"}
           /\ last'.posts >= 1 ]_vars

(***************************************************************************)
(* C21: when the bootstrap starts with an email and a password stored and  *)
(* no token, and the login attempt is not answered with 302, the backing   *)
(* file still holds the stored email and password after the run.           *)
(* (other_config is the store as the script read it when it started.)      *)
(***************************************************************************)
C21_CredentialsSurviveFailedLogin ==
    ( /\ pc = "done"
      /\ last.op = "main"
      /\ HasCredentials(other_config)
      /\ ~HasToken(other_config)
      /\ last.args # <<>>
      /\ last.args[1] # Redirect )
    => /\ file.exists
       /\ get_login_details(NewConfigFrom(file)) = get_login_details(other_config)

(***************************************************************************)
(* C22: a set_up_authentication whose login response is not 302 leaves    *)
(* the store as it was: the credential section, the session section and    *)
(* the backing file are unchanged, so a store with credentials and no      *)
(* token stays one.                                                        *)
(***************************************************************************)
C22_FailedSetUpChangesNothing ==
    [][ (last'.op = "set_up_authentication" /\ last'.args.status # Redirect)
        => /\ config' = config
           /\ file' = file
           /\ (HasCredentials(config) /\ ~HasToken(config))
                => (HasCredentials(config') /\ ~HasToken(config')) ]_vars

C22_Witness ==
    /\ last.op = "set_up_authentication"
    /\ last.args.status # Redirect
    /\ HasCredentials(config)
    /\ ~HasToken(config)
    /\ file = Write(config)

(***************************************************************************)
(* C23: after a set_login_details, set_token or delete_section that does   *)
(* not raise, the file holds the complete in-memory state of the instance  *)
(* that made the call.  No instance re-reads the file: the call leaves the *)
(* other instance's memory alone, and the sections the call did not touch  *)
(* are written as the caller remembered them, replacing whatever the other *)
(* instance persisted in between.                                          *)
(***************************************************************************)
C23_FileIsCallersMemory ==
    [][ (last'.op \in {"set_login_details", "set_token", "delete_section"}
            /\ last'.exc = "none")
        => LET me == IF last'.self = "config" THEN config ELSE other_config
               me2 == IF last'.self = "config" THEN config' ELSE other_config'
               touched == CASE last'.op = "set_login_details" -> "LOGIN"
                            [] last'.op = "set_token" -> "TOKEN"
                            [] OTHER -> last'.args
           IN /\ file' = Write(me2)
              /\ last'.self = "config" => other_config' = other_config
              /\ last'.self = "other_config" => config' = config
              /\ \A s \in DOMAIN me \ {touched} :
                    s \in DOMAIN file'.content /\ file'.content[s] = me[s] ]_vars

C23_Witness ==
    /\ last.op = "set_token"
    /\ last.self = "config"
    /\ last.exc = "none"
    /\ file = Write(config)
    /\ HasCredentials(other_config)
    /\ ~HasCredentials(NewConfigFrom(file))

====
